---- MODULE Spec2Model ----
(***************************************************************************)
(* pyvvcore: the ctypes binding VVCore (core.py) and the facade VVTTSLib   *)
(* (ttslib.py) over the VOICEVOX native library.                           *)
(*                                                                         *)
(* The native library is the environment: every native call is an action   *)
(* that draws the library's answer from a small set.  The facade's code is *)
(* followed statement by statement through the program counter pc.         *)
(***************************************************************************)
EXTENDS Integers, Sequences, FiniteSets, TLC

\* ---------------------------------------------------------------- bounds
\* Longest wav buffer the native library hands back.
MaxLen == 2
\* Number of tts calls made on one facade.
MaxCalls == 2

\* ------------------------------------------------------------- constants
\* The values of a c_uint8.
UInt8 == 0..255

\* Result codes voicevox_tts / voicevox_initialize_openjtalk may return
\* (0 is success, the others stand for the library's failure codes).
ResultCodes == {0, 1, 2}

\* Texts the native library keeps in last_error_message.
ErrorTexts == {"boom", "model not found"}

\* The twelve exported functions VVCore.__init__ declares.
Functions ==
    {"initialize", "finalize", "metas", "supported_devices",
     "yukarin_s_forward", "yukarin_sa_forward", "decode_forward",
     "last_error_message", "voicevox_initialize_openjtalk", "voicevox_tts",
     "voicevox_wav_free", "voicevox_error_result_to_message"}

\* A function object of a freshly loaded CDLL: restype c_int, argtypes unset.
CDLLDefault == [f \in Functions |-> [argtypes |-> <<"unset">>, restype |-> "c_int"]]

\* The assignments of VVCore.__init__, in order, on top of the defaults.
\* decode_forward gets argtypes only.
DeclareSignatures(d) ==
    [d EXCEPT
       !["initialize"] = [argtypes |-> <<"c_char_p", "c_bool", "c_int">>, restype |-> "c_bool"],
       !["finalize"] = [argtypes |-> <<>>, restype |-> "None"],
       !["metas"] = [argtypes |-> <<>>, restype |-> "c_char_p"],
       !["supported_devices"] = [argtypes |-> <<>>, restype |-> "c_char_p"],
       !["yukarin_s_forward"] =
           [argtypes |-> <<"c_int64", "P(c_int64)", "P(c_int64)", "P(c_float)">>,
            restype |-> "c_bool"],
       !["yukarin_sa_forward"] =
           [argtypes |-> <<"c_int64", "P(c_int64)", "P(c_int64)", "P(c_int64)",
                           "P(c_int64)", "P(c_int64)", "P(c_int64)", "P(c_int64)",
                           "P(c_float)">>,
            restype |-> "c_bool"],
       !["decode_forward"].argtypes =
           <<"c_int64", "c_int64", "P(c_float)", "P(c_float)", "P(c_int64)", "P(c_float)">>,
       !["last_error_message"] = [argtypes |-> <<>>, restype |-> "c_char_p"],
       !["voicevox_initialize_openjtalk"] = [argtypes |-> <<"c_char_p">>, restype |-> "c_int"],
       !["voicevox_tts"] =
           [argtypes |-> <<"c_char_p", "c_int64", "P(c_int)", "P(P(c_uint8))">>,
            restype |-> "c_int"],
       !["voicevox_wav_free"] = [argtypes |-> <<"P(c_uint8)">>, restype |-> "None"],
       !["voicevox_error_result_to_message"] = [argtypes |-> <<"c_int">>, restype |-> "c_char_p"]]

\* ------------------------------------------------------------------ state
VARIABLES
    pc,            \* position of the facade's code
    args,          \* arguments of VVTTSLib.__init__
    loaded,        \* libraries loaded by CDLL, in load order
    faulthandler,  \* faulthandler.is_enabled()
    sig,           \* argtypes / restype of the loaded library's functions
    init_res,      \* result of core.initialize
    last_error,    \* the native library's last error text
    init_ojt_res,  \* result of voicevox_initialize_openjtalk
    exc,           \* the exception raised: [type, msg]
    trace,         \* native calls and buffer reads of the running operation
    ncalls,        \* tts calls started so far
    output_binary_size,  \* output_binary_size.contents.value
    output_wav,    \* output_wav.contents: "host", "null" or "native"
    wav,           \* the native library's wav buffer: [state, data]
    tts_res,       \* _tts_res
    ret,           \* _ret_binary_data
    i,             \* loop index of the copy loop
    freed,         \* pointers handed to voicevox_wav_free by the running tts call
    native_ret,    \* the C bool the last inference function returned (0 or 1)
    result         \* value handed back to the caller of the last operation

vars == <<pc, args, loaded, faulthandler, sig, init_res, last_error, init_ojt_res,
          exc, trace, ncalls, output_binary_size, output_wav, wav, tts_res, ret, i,
          freed, native_ret, result>>

ctorVars == <<args, loaded, faulthandler, sig, init_res, last_error, init_ojt_res>>
ttsVars == <<ncalls, output_binary_size, output_wav, wav, tts_res, ret, i, freed,
             native_ret>>

NoExc == [type |-> "none", msg |-> <<>>]
NoWav == [state |-> "none", data |-> <<>>]
NoResult == [op |-> "none", val |-> <<>>]

\* A path argument: not given (None), given but absent on disk, given and present.
PathStates == {"none", "missing", "valid"}

Init ==
    /\ pc = "ctor_ort"
    /\ args \in [ttslib_path : {"missing", "valid"},
                 ort_path : PathStates,
                 init_dir : PathStates,
                 dict_dir : PathStates,
                 enable_faulthandler : BOOLEAN]
    /\ loaded = <<>>
    /\ faulthandler \in BOOLEAN
    /\ sig = [f \in Functions |-> [argtypes |-> <<"unloaded">>, restype |-> "unloaded"]]
    /\ init_res = FALSE
    /\ last_error = "none"
    /\ init_ojt_res = 0
    /\ exc = NoExc
    /\ trace = <<>>
    /\ ncalls = 0
    /\ output_binary_size = 0
    /\ output_wav = "host"
    /\ wav = NoWav
    /\ tts_res = 0
    /\ ret = <<>>
    /\ i = 0
    /\ freed = <<>>
    /\ native_ret = 0
    /\ result = NoResult

\* ------------------------------------------------------------ conversions
\* bytes.decode("utf-8") of a native text: the str holding the same text.
Decode(b) == b.text
\* What the native library returns for a text t (a char*).
NativeText(t) == [text |-> t]

\* The library's own table of result code texts.
ErrorMessageTable == [c \in ResultCodes |->
    IF c = 0 THEN "no error"
    ELSE IF c = 1 THEN "openjtalk dictionary not loaded"
    ELSE "invalid speaker id"]

\* voicevox_error_result_to_message: the library's text for a result code.
ErrorResultToMessage(code) == NativeText(ErrorMessageTable[code])

\* Path.resolve(strict=True): raises FileNotFoundError for an absent path.
ResolveStrict(p) == p # "missing"

Raise(type, msg) == [type |-> type, msg |-> msg]

\* ------------------------------------------------- VVTTSLib.__init__ steps
\* if ort_path is not None: resolve(strict=True); CDLL(str(ort_path))
CtorPreloadOrt ==
    /\ pc = "ctor_ort"
    /\ IF args.ort_path = "none"
         THEN /\ pc' = "ctor_lib"
              /\ UNCHANGED <<loaded, exc>>
         ELSE IF ~ResolveStrict(args.ort_path)
           THEN /\ pc' = "ctor_failed"
                /\ exc' = Raise("FileNotFoundError", <<"ort_path">>)
                /\ UNCHANGED loaded
           ELSE /\ pc' = "ctor_lib"
                /\ loaded' = Append(loaded, "ort")
                /\ UNCHANGED exc
    /\ UNCHANGED <<args, faulthandler, sig, init_res, last_error, init_ojt_res,
                   trace, result>>
    /\ UNCHANGED ttsVars

\* Variant of CtorResolveLib that does not use strict resolution.
CtorResolveLib_Unchecked ==
    /\ pc = "ctor_lib"
    /\ pc' = "ctor_initdir"
    /\ UNCHANGED <<exc, trace, result>>
    /\ UNCHANGED ctorVars
    /\ UNCHANGED ttsVars

\* ttslib_path.expanduser().resolve(strict=True)
CtorResolveLib ==
    /\ pc = "ctor_lib"
    /\ IF ResolveStrict(args.ttslib_path)
         THEN /\ pc' = "ctor_initdir"
              /\ UNCHANGED exc
         ELSE /\ pc' = "ctor_failed"
              /\ exc' = Raise("FileNotFoundError", <<"ttslib_path">>)
    /\ UNCHANGED <<trace, result>>
    /\ UNCHANGED ctorVars
    /\ UNCHANGED ttsVars

\* Variant of CtorResolveInitDir that does not use strict resolution.
CtorResolveInitDir_Unchecked ==
    /\ pc = "ctor_initdir"
    /\ pc' = "ctor_fault"
    /\ UNCHANGED <<exc, trace, result>>
    /\ UNCHANGED ctorVars
    /\ UNCHANGED ttsVars

\* init_dir defaults to ttslib_path.parent; init_dir.resolve(strict=True)
CtorResolveInitDir ==
    /\ pc = "ctor_initdir"
    /\ LET dir == IF args.init_dir = "none" THEN args.ttslib_path ELSE args.init_dir
       IN IF ResolveStrict(dir)
            THEN /\ pc' = "ctor_fault"
                 /\ UNCHANGED exc
            ELSE /\ pc' = "ctor_failed"
                 /\ exc' = Raise("FileNotFoundError", <<"init_dir">>)
    /\ UNCHANGED <<trace, result>>
    /\ UNCHANGED ctorVars
    /\ UNCHANGED ttsVars

\* if enable_faulthandler: if not faulthandler.is_enabled(): faulthandler.enable()
CtorFaulthandler ==
    /\ pc = "ctor_fault"
    /\ faulthandler' = (faulthandler \/ args.enable_faulthandler)
    /\ pc' = "ctor_load"
    /\ UNCHANGED <<args, loaded, sig, init_res, last_error, init_ojt_res, exc,
                   trace, result>>
    /\ UNCHANGED ttsVars

\* self.core = VVCore(CDLL(str(ttslib_path)))
CtorLoadCore ==
    /\ pc = "ctor_load"
    /\ loaded' = Append(loaded, "ttslib")
    /\ sig' = DeclareSignatures(CDLLDefault)
    /\ pc' = "ctor_init"
    /\ UNCHANGED <<args, faulthandler, init_res, last_error, init_ojt_res, exc,
                   trace, result>>
    /\ UNCHANGED ttsVars

\* init_res = self.core.initialize(...): the library answers true or false,
\* and on false records a last error text.
CtorInitialize ==
    /\ pc = "ctor_init"
    /\ \E ok \in BOOLEAN, t \in ErrorTexts :
         /\ init_res' = ok
         /\ last_error' = IF ok THEN last_error ELSE t
    /\ trace' = Append(trace, "initialize")
    /\ pc' = "ctor_check"
    /\ UNCHANGED <<args, loaded, faulthandler, sig, init_ojt_res, exc, result>>
    /\ UNCHANGED ttsVars

\* Variant of CtorCheckInit that ignores init_res.
CtorCheckInit_Unchecked ==
    /\ pc = "ctor_check"
    /\ pc' = "ctor_dict"
    /\ UNCHANGED <<exc, trace, result>>
    /\ UNCHANGED ctorVars
    /\ UNCHANGED ttsVars

\* if not init_res: raise RuntimeError(... + last_error_message().decode())
CtorCheckInit ==
    /\ pc = "ctor_check"
    /\ IF init_res
         THEN /\ pc' = "ctor_dict"
              /\ UNCHANGED <<exc, trace>>
         ELSE /\ pc' = "ctor_failed"
              /\ trace' = Append(trace, "last_error_message")
              /\ exc' = Raise("RuntimeError",
                              <<"core init failed", Decode(NativeText(last_error))>>)
    /\ UNCHANGED result
    /\ UNCHANGED ctorVars
    /\ UNCHANGED ttsVars

\* Variant of CtorOpenJTalk that ignores init_ojt_res.
CtorOpenJTalk_IgnoreCode ==
    /\ pc = "ctor_dict"
    /\ IF args.dict_dir = "none"
         THEN /\ pc' = "ready"
              /\ UNCHANGED <<init_ojt_res, exc, trace>>
         ELSE IF ~ResolveStrict(args.dict_dir)
           THEN /\ pc' = "ctor_failed"
                /\ exc' = Raise("FileNotFoundError", <<"dict_dir">>)
                /\ UNCHANGED <<init_ojt_res, trace>>
           ELSE \E code \in ResultCodes :
                /\ init_ojt_res' = code
                /\ pc' = "ready"
                /\ trace' = Append(trace, "voicevox_initialize_openjtalk")
                /\ UNCHANGED exc
    /\ UNCHANGED <<args, loaded, faulthandler, sig, init_res, last_error, result>>
    /\ UNCHANGED ttsVars

\* if dict_dir is not None: resolve(True); voicevox_initialize_openjtalk(...);
\* if init_ojt_res != 0: raise RuntimeError(... + error_result_to_message)
CtorOpenJTalk ==
    /\ pc = "ctor_dict"
    /\ IF args.dict_dir = "none"
         THEN /\ pc' = "ready"
              /\ UNCHANGED <<init_ojt_res, exc, trace>>
         ELSE IF ~ResolveStrict(args.dict_dir)
           THEN /\ pc' = "ctor_failed"
                /\ exc' = Raise("FileNotFoundError", <<"dict_dir">>)
                /\ UNCHANGED <<init_ojt_res, trace>>
           ELSE \E code \in ResultCodes :
                /\ init_ojt_res' = code
                /\ IF code # 0
                     THEN /\ pc' = "ctor_failed"
                          /\ trace' = trace \o <<"voicevox_initialize_openjtalk",
                                                 "voicevox_error_result_to_message">>
                          /\ exc' = Raise("RuntimeError",
                                          <<"openjtalk init failed",
                                            Decode(ErrorResultToMessage(code))>>)
                     ELSE /\ pc' = "ready"
                          /\ trace' = Append(trace, "voicevox_initialize_openjtalk")
                          /\ UNCHANGED exc
    /\ UNCHANGED <<args, loaded, faulthandler, sig, init_res, last_error, result>>
    /\ UNCHANGED ttsVars

\* ---------------------------------------------- the copy loop's conversion
HexDigitChars == <<"0", "1", "2", "3", "4", "5", "6", "7",
                   "8", "9", "a", "b", "c", "d", "e", "f">>

RECURSIVE HexDigits(_)
\* The hexadecimal digits of n, most significant first, without leading zeros.
HexDigits(n) ==
    IF n < 16 THEN <<HexDigitChars[n + 1]>>
    ELSE Append(HexDigits(n \div 16), HexDigitChars[(n % 16) + 1])

\* hex(n) for n >= 0: "0x" followed by the digits.
Hex(n) == <<"0", "x">> \o HexDigits(n)

\* s[2:]
DropPrefix(s) == SubSeq(s, 3, Len(s))

\* Variant of ZFill that pads nothing.
ZFill_None(s, width) == s

RECURSIVE ZFill(_, _)
\* str.zfill(width): pad with "0" on the left up to width, never truncate.
ZFill(s, width) == IF Len(s) >= width THEN s ELSE ZFill(<<"0">> \o s, width)

\* int(c, 16) of one hexadecimal digit.
HexValue(c) == (CHOOSE k \in 1..16 : HexDigitChars[k] = c) - 1

\* bytes.fromhex(s): one byte per pair of digits (s of even length).
FromHex(s) ==
    [k \in 1..(Len(s) \div 2) |-> 16 * HexValue(s[2 * k - 1]) + HexValue(s[2 * k])]

\* bytes.fromhex(hex(b)[2:].zfill(2))
ByteToBytes(b) == FromHex(ZFill(DropPrefix(Hex(b)), 2))

\* ------------------------------------------------------ the native library
\* The wav data the library produces: n bytes starting at seed.
WavData(n, seed) == [k \in 1..n |-> (seed + 85 * (k - 1)) % 256]

\* voicevox_wav_free(p) inside the library: releases its own live buffer,
\* ignores null.  Any other pointer is undefined behaviour.  data keeps
\* what the buffer held when it was released.
NativeFree(p, w) == IF p = "native" /\ w.state = "live"
                      THEN [w EXCEPT !.state = "freed"]
                      ELSE w
FreeIsDefined(p, w) == p = "null" \/ (p = "native" /\ w.state = "live")

\* output_wav.contents[k]: the byte at index k of the pointed-to memory.
\* Reading outside a live native buffer is undefined: any byte.
ReadValues(p, w, k) ==
    IF p = "native" /\ w.state = "live" /\ k < Len(w.data)
      THEN {w.data[k + 1]}
      ELSE UInt8

\* ------------------------------------------------------ VVTTSLib.tts steps
\* output_binary_size = pointer(c_int()); output_wav = pointer(pointer(c_uint8()))
TtsBegin ==
    /\ pc = "ready"
    /\ ncalls < MaxCalls
    /\ ncalls' = ncalls + 1
    /\ output_binary_size' = 0
    /\ output_wav' = "host"
    /\ wav' = NoWav
    /\ tts_res' = 0
    /\ ret' = <<>>
    /\ i' = 0
    /\ freed' = <<>>
    /\ trace' = <<>>
    /\ exc' = NoExc
    /\ result' = NoResult
    /\ pc' = "tts_call"
    /\ UNCHANGED native_ret
    /\ UNCHANGED ctorVars

\* _tts_res = self.core.voicevox_tts(text, speaker_id, output_binary_size, output_wav)
\* On success the library allocates the wav and writes its address and size.
\* On failure it may leave the output pointer as it was, write null, or
\* leave a partly filled buffer of its own.
TtsNativeCall ==
    /\ pc = "tts_call"
    /\ \E code \in ResultCodes, n \in 0..MaxLen, seed \in UInt8,
          out \in {"untouched", "null", "native"} :
         /\ tts_res' = code
         /\ IF code = 0 \/ out = "native"
              THEN /\ wav' = [state |-> "live", data |-> WavData(n, seed)]
                   /\ output_wav' = "native"
                   /\ output_binary_size' = n
              ELSE /\ wav' = wav
                   /\ output_wav' = IF out = "null" THEN "null" ELSE output_wav
                   /\ output_binary_size' = output_binary_size
    /\ trace' = Append(trace, "voicevox_tts")
    /\ pc' = "tts_check"
    /\ UNCHANGED <<ncalls, ret, i, freed, native_ret, exc, result>>
    /\ UNCHANGED ctorVars

\* Variant of TtsFailFree that raises without releasing the buffer.
TtsFailFree_Skip ==
    /\ pc = "tts_check"
    /\ tts_res # 0
    /\ pc' = "tts_raise"
    /\ UNCHANGED <<exc, trace, result>>
    /\ UNCHANGED ttsVars
    /\ UNCHANGED ctorVars

\* if _tts_res != 0: self.core.voicevox_wav_free(output_wav.contents)
\* Freeing memory the library does not own is undefined: the process may
\* die inside the library or carry on.
TtsFailFree ==
    /\ pc = "tts_check"
    /\ tts_res # 0
    /\ freed' = Append(freed, output_wav)
    /\ wav' = NativeFree(output_wav, wav)
    /\ trace' = Append(trace, "voicevox_wav_free")
    /\ \/ pc' = "tts_raise"
       \/ ~FreeIsDefined(output_wav, wav) /\ pc' = "crashed"
    /\ UNCHANGED <<ncalls, output_binary_size, output_wav, tts_res, ret, i,
                   native_ret, exc, result>>
    /\ UNCHANGED ctorVars

\* Variant of TtsRaise that reports last_error_message instead of the code's text.
TtsRaise_LastError ==
    /\ pc = "tts_raise"
    /\ trace' = Append(trace, "last_error_message")
    /\ exc' = Raise("RuntimeError", <<"tts failed", Decode(NativeText(last_error))>>)
    /\ pc' = "tts_raised"
    /\ UNCHANGED result
    /\ UNCHANGED ttsVars
    /\ UNCHANGED ctorVars

\* raise RuntimeError(... + voicevox_error_result_to_message(_tts_res).decode())
TtsRaise ==
    /\ pc = "tts_raise"
    /\ trace' = Append(trace, "voicevox_error_result_to_message")
    /\ exc' = Raise("RuntimeError",
                    <<"tts failed", Decode(ErrorResultToMessage(tts_res))>>)
    /\ pc' = "tts_raised"
    /\ UNCHANGED result
    /\ UNCHANGED ttsVars
    /\ UNCHANGED ctorVars

\* Variant of TtsStartCopy that releases the buffer before the copy loop.
TtsStartCopy_FreeFirst ==
    /\ pc = "tts_check"
    /\ tts_res = 0
    /\ freed' = Append(freed, output_wav)
    /\ wav' = NativeFree(output_wav, wav)
    /\ trace' = Append(trace, "voicevox_wav_free")
    /\ ret' = <<>>
    /\ i' = 0
    /\ pc' = "tts_copy"
    /\ UNCHANGED <<ncalls, output_binary_size, output_wav, tts_res, native_ret, exc,
                   result>>
    /\ UNCHANGED ctorVars

\* _ret_binary_data = b""; the for loop starts at i = 0
TtsStartCopy ==
    /\ pc = "tts_check"
    /\ tts_res = 0
    /\ ret' = <<>>
    /\ i' = 0
    /\ pc' = "tts_copy"
    /\ UNCHANGED <<ncalls, output_binary_size, output_wav, wav, tts_res, freed,
                   native_ret, exc, trace, result>>
    /\ UNCHANGED ctorVars

\* for i in range(size): _ret_binary_data += bytes.fromhex(hex(wav[i])[2:].zfill(2))
TtsCopyByte ==
    /\ pc = "tts_copy"
    /\ i < output_binary_size
    /\ \E b \in ReadValues(output_wav, wav, i) : ret' = ret \o ByteToBytes(b)
    /\ i' = i + 1
    /\ trace' = Append(trace, "read")
    /\ UNCHANGED <<pc, ncalls, output_binary_size, output_wav, wav, tts_res, freed,
                   native_ret, exc, result>>
    /\ UNCHANGED ctorVars

\* after the loop: self.core.voicevox_wav_free(output_wav.contents)
TtsSuccessFree ==
    /\ pc = "tts_copy"
    /\ i >= output_binary_size
    /\ freed' = Append(freed, output_wav)
    /\ wav' = NativeFree(output_wav, wav)
    /\ trace' = Append(trace, "voicevox_wav_free")
    /\ \/ pc' = "tts_return"
       \/ ~FreeIsDefined(output_wav, wav) /\ pc' = "crashed"
    /\ UNCHANGED <<ncalls, output_binary_size, output_wav, tts_res, ret, i,
                   native_ret, exc, result>>
    /\ UNCHANGED ctorVars

\* return _ret_binary_data
TtsReturn ==
    /\ pc = "tts_return"
    /\ result' = [op |-> "tts", val |-> ret]
    /\ trace' = Append(trace, "return")
    /\ pc' = "tts_returned"
    /\ UNCHANGED exc
    /\ UNCHANGED ttsVars
    /\ UNCHANGED ctorVars

\* Control is back with the caller: the call's locals, its return value and
\* its exception are dropped, and the facade may be used again.  A released
\* buffer is back with the library's allocator; one never released stays.
TtsDone ==
    /\ pc \in {"tts_returned", "tts_raised"}
    /\ pc' = "ready"
    /\ output_binary_size' = 0
    /\ output_wav' = "host"
    /\ tts_res' = 0
    /\ ret' = <<>>
    /\ i' = 0
    /\ freed' = <<>>
    /\ trace' = <<>>
    /\ exc' = NoExc
    /\ result' = NoResult
    /\ wav' = IF wav.state = "freed" THEN NoWav ELSE wav
    /\ UNCHANGED <<ncalls, native_ret>>
    /\ UNCHANGED ctorVars

\* --------------------------------------------- VVCore inference methods
\* The register a C function returning bool leaves behind: the low byte is
\* the bool, the bytes above it are whatever the callee left there.
RawRegister(b, upper) == upper * 256 + b

\* ctypes' conversion of the returned register by the declared restype.
ConvertResult(restype, raw) ==
    IF restype = "c_bool" THEN [type |-> "bool", val |-> IF raw % 256 # 0 THEN 1 ELSE 0]
    ELSE [type |-> "int", val |-> raw]

\* return self.core.<name>(...): the native call and the conversion of its result.
CoreCall(name) ==
    /\ pc = "ready"
    /\ \E b \in {0, 1}, upper \in {0, 1} :
         /\ native_ret' = b
         /\ result' = [op |-> name, val |-> ConvertResult(sig[name].restype,
                                                         RawRegister(b, upper))]
    /\ UNCHANGED <<pc, exc, trace, ncalls, output_binary_size, output_wav, wav,
                   tts_res, ret, i, freed>>
    /\ UNCHANGED ctorVars

YukarinSForward == CoreCall("yukarin_s_forward")
YukarinSaForward == CoreCall("yukarin_sa_forward")
DecodeForward == CoreCall("decode_forward")

Next ==
    \/ CtorPreloadOrt
    \/ CtorResolveLib
    \/ CtorResolveInitDir
    \/ CtorFaulthandler
    \/ CtorLoadCore
    \/ CtorInitialize
    \/ CtorCheckInit
    \/ CtorOpenJTalk
    \/ TtsBegin
    \/ TtsNativeCall
    \/ TtsFailFree
    \/ TtsRaise
    \/ TtsStartCopy
    \/ TtsCopyByte
    \/ TtsSuccessFree
    \/ TtsReturn
    \/ TtsDone
    \/ YukarinSForward
    \/ YukarinSaForward
    \/ DecodeForward

Spec == Init /\ [][Next]_vars

\* ================================================================ claims
Contains(s, x) == \E k \in 1..Len(s) : s[k] = x
Count(s, x) == Cardinality({k \in 1..Len(s) : s[k] = x})
Reads(n) == [k \in 1..n |-> "read"]

\* The caller has control again after a tts call.
TtsOver == pc \in {"tts_returned", "tts_raised"}
\* VVTTSLib.__init__ has finished, by return or by exception, and nothing
\* has been called on the facade yet.
CtorOver == ncalls = 0 /\ pc \in {"ready", "ctor_failed"}
\* VVTTSLib.__init__ is running or has just finished.
InCtor == ncalls = 0 /\ pc \in {"ctor_ort", "ctor_lib", "ctor_initdir", "ctor_fault",
                                "ctor_load", "ctor_init", "ctor_check", "ctor_dict",
                                "ready", "ctor_failed"}

\* C1: every tts call that reached voicevox_tts has called voicevox_wav_free
\* exactly once when control is back with the caller, whether the result code
\* was zero or not; at no point of a call has it been called twice.
C1_FreedExactlyOnce ==
    /\ Len(freed) <= 1
    /\ Count(trace, "voicevox_wav_free") = Len(freed)
    /\ TtsOver => Len(freed) = 1
    /\ TtsOver => wav.state # "live"

\* C1 witness: a failed call that released the library's partly filled buffer.
C1_Witness ==
    pc = "tts_raised" /\ tts_res # 0 /\ freed = <<"native">> /\ wav.state = "freed"

\* C2: on the success path the events are, in order, voicevox_tts, one read
\* of the buffer per byte, voicevox_wav_free, return; no read follows the free.
C2_CopyThenFree ==
    (tts_res = 0 /\ pc \in {"tts_copy", "tts_return", "tts_returned"}) =>
        /\ \A j \in 1..Len(trace), k \in 1..Len(trace) :
             (trace[j] = "voicevox_wav_free" /\ trace[k] = "read") => k < j
        /\ pc = "tts_copy" => (wav.state = "live" /\ freed = <<>>)
        /\ pc = "tts_return" =>
             trace = <<"voicevox_tts">> \o Reads(output_binary_size)
                       \o <<"voicevox_wav_free">>
        /\ pc = "tts_returned" =>
             trace = <<"voicevox_tts">> \o Reads(output_binary_size)
                       \o <<"voicevox_wav_free", "return">>

\* C2 witness: a successful call that copied at least one byte and returned.
C2_Witness ==
    pc = "tts_returned" /\ output_binary_size >= 1 /\ Count(trace, "read") >= 1

\* C3: a successful tts call returns exactly the first N bytes of the native
\* buffer, in order, N being the size the library reported; the returned
\* length is N and every byte value comes back as itself.
C3_ReturnsBufferBytes ==
    /\ pc = "tts_copy" => ret = SubSeq(wav.data, 1, i)
    /\ pc = "tts_returned" =>
         /\ result.op = "tts"
         /\ Len(result.val) = output_binary_size
         /\ result.val = SubSeq(wav.data, 1, output_binary_size)

\* C3 witness: a returned wav whose first byte needs the zero padding and
\* whose second does not.
C3_Witness ==
    /\ pc = "tts_returned"
    /\ Len(result.val) >= 2
    /\ result.val[1] < 16
    /\ result.val[2] >= 16

\* C4: after a non-zero result code tts never reaches the copy loop or a
\* return, never reads the buffer, has released the output pointer before it
\* raises, and the failure raised carries the library's text for that code.
C4_FailureRaisesDecoded ==
    (tts_res # 0) =>
        /\ pc \in {"tts_check", "tts_raise", "tts_raised", "crashed"}
        /\ result.op # "tts"
        /\ ~Contains(trace, "read")
        /\ pc = "tts_raise" => trace = <<"voicevox_tts", "voicevox_wav_free">>
        /\ pc = "tts_raised" =>
             /\ exc.type = "RuntimeError"
             /\ Contains(exc.msg, Decode(NativeText(ErrorMessageTable[tts_res])))
             /\ trace = <<"voicevox_tts", "voicevox_wav_free",
                          "voicevox_error_result_to_message">>

\* C4 witness: a failed call, the library having written a null pointer.
C4_Witness ==
    pc = "tts_raised" /\ tts_res = 2 /\ freed = <<"null">> /\ exc.type = "RuntimeError"

\* C5: when native initialize returns false, construction fails with a
\* message holding the last_error_message text, no facade is returned and
\* voicevox_initialize_openjtalk is never called, dictionary given or not.
C5_InitFailureAborts ==
    (InCtor /\ Contains(trace, "initialize") /\ ~init_res /\ pc # "ctor_check") =>
        /\ pc = "ctor_failed"
        /\ exc.type = "RuntimeError"
        /\ Contains(exc.msg, last_error)
        /\ last_error \in ErrorTexts
        /\ ~Contains(trace, "voicevox_initialize_openjtalk")

\* C5 witness: initialize failed with "boom" while a dictionary was supplied.
C5_Witness ==
    /\ pc = "ctor_failed"
    /\ args.dict_dir = "valid"
    /\ ~init_res
    /\ trace = <<"initialize", "last_error_message">>
    /\ Contains(exc.msg, "boom")

\* C6 as stated: with a library path that does not exist, construction fails
\* before any native library is loaded or any native function is called.
C6_Original ==
    args.ttslib_path = "missing" =>
        /\ loaded = <<>>
        /\ trace = <<>>
        /\ pc \in {"ctor_ort", "ctor_lib", "ctor_failed"}

\* C6 amended: with a library path that does not exist, construction fails
\* before the TTS library is loaded, its signatures declared or any native
\* function called; only a valid preload library (ort_path) has been loaded.
C6_Amended ==
    args.ttslib_path = "missing" =>
        /\ pc \in {"ctor_ort", "ctor_lib", "ctor_failed"}
        /\ ~Contains(loaded, "ttslib")
        /\ \A f \in Functions : sig[f].restype = "unloaded"
        /\ trace = <<>>
        /\ loaded # <<>> => (loaded = <<"ort">> /\ args.ort_path = "valid")
        /\ pc = "ctor_failed" =>
             /\ exc.type = "FileNotFoundError"
             /\ loaded = IF args.ort_path = "valid" THEN <<"ort">> ELSE <<>>

\* C6 witness: construction failed on the library path with the preload
\* library already loaded.
C6_Witness ==
    /\ pc = "ctor_failed"
    /\ args.ttslib_path = "missing"
    /\ exc.msg = <<"ttslib_path">>
    /\ loaded = <<"ort">>

\* C7 as stated: all supplied paths are validated first, so a construction
\* given a non-existent dictionary directory never calls native initialize.
C7_Original ==
    args.dict_dir = "missing" => ~Contains(trace, "initialize")

\* C7 amended: the preload path, the library path and the initialization
\* directory are validated before the library is loaded and initialize is
\* called; the dictionary directory is validated only after initialize has
\* succeeded, so a non-existent dictionary directory fails construction
\* after the initialize call and before any text-analysis initialize.
C7_Amended ==
    /\ (InCtor /\ Contains(loaded, "ttslib")) =>
         /\ args.ort_path # "missing"
         /\ args.ttslib_path = "valid"
         /\ args.init_dir # "missing"
    /\ (InCtor /\ Contains(trace, "initialize")) => loaded[Len(loaded)] = "ttslib"
    /\ args.dict_dir = "missing" =>
         /\ pc # "ready"
         /\ ncalls = 0
         /\ ~Contains(trace, "voicevox_initialize_openjtalk")
         /\ (pc = "ctor_failed" /\ exc.msg = <<"dict_dir">>) =>
              (init_res /\ trace = <<"initialize">>)

\* C7 witness: construction failed on the dictionary directory.
C7_Witness ==
    /\ pc = "ctor_failed"
    /\ args.dict_dir = "missing"
    /\ exc.msg = <<"dict_dir">>
    /\ Contains(trace, "initialize")

OjtCalls == Count(trace, "voicevox_initialize_openjtalk")

\* C8 as stated: voicevox_initialize_openjtalk is called exactly once when a
\* dictionary directory was supplied and initialize succeeded, never without
\* a dictionary directory.
C8_Original ==
    CtorOver =>
        /\ (args.dict_dir # "none" /\ init_res) => OjtCalls = 1
        /\ args.dict_dir = "none" => OjtCalls = 0

\* C8 amended: voicevox_initialize_openjtalk is called exactly once when a
\* dictionary directory was supplied, exists and initialize succeeded, and
\* never otherwise; a non-zero code fails construction with the library's
\* text for that code, and code 0 lets construction succeed.
C8_Amended ==
    /\ InCtor => OjtCalls <= 1
    /\ CtorOver => (OjtCalls = 1 <=> (args.dict_dir = "valid" /\ init_res))
    /\ (CtorOver /\ OjtCalls = 1 /\ init_ojt_res # 0) =>
         /\ pc = "ctor_failed"
         /\ exc.type = "RuntimeError"
         /\ Contains(exc.msg, Decode(NativeText(ErrorMessageTable[init_ojt_res])))
    /\ (CtorOver /\ OjtCalls = 1 /\ init_ojt_res = 0) => (pc = "ready" /\ exc = NoExc)
    /\ (CtorOver /\ pc = "ready") => init_res

\* C8 witness: the text-analysis initialize was called and failed.
C8_Witness ==
    /\ pc = "ctor_failed"
    /\ OjtCalls = 1
    /\ init_ojt_res = 2
    /\ Contains(exc.msg, "invalid speaker id")

\* The three inference operations of the binding's operation table.
InferenceOps == {"yukarin_s_forward", "yukarin_sa_forward", "decode_forward"}

\* C9: once the binding is constructed every inference operation is declared
\* with a boolean return type, and what its method returns is the native
\* bool, as a bool.
C9_Original ==
    /\ Contains(loaded, "ttslib") => \A f \in InferenceOps : sig[f].restype = "c_bool"
    /\ result.op \in InferenceOps => result.val = [type |-> "bool", val |-> native_ret]

\* C10: every pointer tts hands to voicevox_wav_free is null or the address
\* of a buffer the library allocated during that call.
C10_Original ==
    \A k \in 1..Len(freed) : freed[k] \in {"null", "native"}
====
